---- MODULE Spec2Model ----
(***************************************************************************)
(* Model of dockerizer.py: a command-line tool that scans one Python       *)
(* script for import statements, maps the imported names to pip packages,  *)
(* writes a Dockerfile and a requirements.txt next to the script, and then *)
(* shells out to `docker build` and `docker run`.                          *)
(*                                                                         *)
(* A Python str is modelled as a sequence of one-character strings, so     *)
(* that the regular expression, str.endswith, os.path.basename and the     *)
(* code-point order used by sorted() are computed, not assumed.            *)
(***************************************************************************)
EXTENDS Integers, Sequences, FiniteSets, TLC

\* ------------------------------------------------------------------------
\* Bounds of the model
\* ------------------------------------------------------------------------

\* Greatest number of statements of a source text that parse_imports reads.
MaxStatements == 3

\* ------------------------------------------------------------------------
\* Characters and strings
\* ------------------------------------------------------------------------

\* The characters 0-9, A-Z and a-z, each run in code-point order.
Digits == <<"0","1","2","3","4","5","6","7","8","9">>
Upper == <<"A","B","C","D","E","F","G","H","I","J","K","L","M",
           "N","O","P","Q","R","S","T","U","V","W","X","Y","Z">>
Lower == <<"a","b","c","d","e","f","g","h","i","j","k","l","m",
           "n","o","p","q","r","s","t","u","v","w","x","y","z">>

IndexIn(c, run) == CHOOSE i \in 1..Len(run) : run[i] = c
InRun(c, run) == \E i \in 1..Len(run) : run[i] = c

\* ord(c) for the characters that occur in package names.
Ord(c) ==
  IF InRun(c, Digits) THEN 47 + IndexIn(c, Digits)
  ELSE IF InRun(c, Upper) THEN 64 + IndexIn(c, Upper)
  ELSE IF InRun(c, Lower) THEN 96 + IndexIn(c, Lower)
  ELSE IF c = "-" THEN 45
  ELSE IF c = "." THEN 46
  ELSE 95

\* Python str comparison (<): lexicographic by code point, a proper prefix is smaller.
RECURSIVE StrLess(_, _)
StrLess(a, b) ==
  IF b = <<>> THEN FALSE
  ELSE IF a = <<>> THEN TRUE
  ELSE IF Head(a) = Head(b) THEN StrLess(Tail(a), Tail(b))
  ELSE Ord(Head(a)) < Ord(Head(b))

\* sorted(xs): the stable ascending sort of a list of str.
RECURSIVE sorted(_)
sorted(xs) ==
  IF xs = <<>> THEN <<>>
  ELSE LET rest == sorted(SubSeq(xs, 1, Len(xs) - 1))
           x == xs[Len(xs)]
           k == Cardinality({i \in 1..Len(rest) : ~StrLess(x, rest[i])})
       IN SubSeq(rest, 1, k) \o <<x>> \o SubSeq(rest, k + 1, Len(rest))

\* s.endswith(suffix)
EndsWith(s, suffix) ==
  /\ Len(suffix) <= Len(s)
  /\ SubSeq(s, Len(s) - Len(suffix) + 1, Len(s)) = suffix

\* os.path.basename(p): what follows the last slash.
RECURSIVE basename(_)
basename(p) ==
  IF \E i \in 1..Len(p) : p[i] = "/"
    THEN basename(Tail(p))
    ELSE p

\* ------------------------------------------------------------------------
\* parse_imports: the regular expression
\*   ^\s*(?:import|from)\s+([a-zA-Z0-9_]+)      with re.MULTILINE
\* ------------------------------------------------------------------------

KwImport == <<"i","m","p","o","r","t">>
KwFrom == <<"f","r","o","m">>

\* \s
IsSpace(c) == c \in {" ", "\t", "\n", "\r", "\f"}

\* [a-zA-Z0-9_]
IsWord(c) == InRun(c, Lower) \/ InRun(c, Upper) \/ InRun(c, Digits) \/ c = "_"

\* ^ under re.MULTILINE: the start of the text or just after a newline.
AtLineStart(s, p) == p = 1 \/ (p - 1 <= Len(s) /\ s[p - 1] = "\n")

\* Position after the greedy run \s* that starts at p.
RECURSIVE SkipSpace(_, _)
SkipSpace(s, p) ==
  IF p <= Len(s) /\ IsSpace(s[p]) THEN SkipSpace(s, p + 1) ELSE p

\* Position after the greedy run [a-zA-Z0-9_]* that starts at p.
RECURSIVE SkipWord(_, _)
SkipWord(s, p) ==
  IF p <= Len(s) /\ IsWord(s[p]) THEN SkipWord(s, p + 1) ELSE p

\* The literal w occurs in s at position p.
LiteralAt(s, p, w) ==
  /\ p + Len(w) - 1 <= Len(s)
  /\ SubSeq(s, p, p + Len(w) - 1) = w

NoMatch == [found |-> FALSE, lo |-> 0, hi |-> 0]

\* The match of the pattern that starts exactly at position p, if any:
\* lo..hi-1 is group 1, and hi is the end of the whole match.
MatchAt(s, p) ==
  IF ~AtLineStart(s, p) THEN NoMatch
  ELSE
    LET q == SkipSpace(s, p)
        k == IF LiteralAt(s, q, KwImport) THEN q + Len(KwImport)
             ELSE IF LiteralAt(s, q, KwFrom) THEN q + Len(KwFrom)
             ELSE 0
        r == SkipSpace(s, k)
        e == SkipWord(s, r)
    IN IF k = 0 \/ r = k \/ e = r THEN NoMatch
       ELSE [found |-> TRUE, lo |-> r, hi |-> e]

\* re.finditer: leftmost matches, each search resuming where the last
\* match ended; the loop adds group 1 of every match to the set.
RECURSIVE FindIter(_, _, _)
FindIter(s, p, acc) ==
  IF p > Len(s) THEN acc
  ELSE LET m == MatchAt(s, p)
       IN IF m.found
            THEN FindIter(s, m.hi, acc \cup {SubSeq(s, m.lo, m.hi - 1)})
            ELSE FindIter(s, p + 1, acc)

\* parse_imports(python_file): readable says whether open()/read() succeed;
\* any exception is caught and the empty set is returned.
parse_imports(content, readable) ==
  IF readable THEN FindIter(content, 1, {}) ELSE {}

\* ------------------------------------------------------------------------
\* map_to_pip_packages: the two tables and the loop
\* ------------------------------------------------------------------------

package_mapping ==
  <<"c","v","2">> :> <<"o","p","e","n","c","v","-","p","y","t","h","o","n">> @@   \* cv2 -> opencv-python
  <<"P","I","L">> :> <<"P","i","l","l","o","w">> @@   \* PIL -> Pillow
  <<"s","k","l","e","a","r","n">> :> <<"s","c","i","k","i","t","-","l","e","a","r","n">> @@   \* sklearn -> scikit-learn
  <<"y","a","m","l">> :> <<"p","y","y","a","m","l">> @@   \* yaml -> pyyaml
  <<"d","o","t","e","n","v">> :> <<"p","y","t","h","o","n","-","d","o","t","e","n","v">> @@   \* dotenv -> python-dotenv
  <<"b","s","4">> :> <<"b","e","a","u","t","i","f","u","l","s","o","u","p","4">> @@   \* bs4 -> beautifulsoup4
  <<"d","a","t","e","u","t","i","l">> :> <<"p","y","t","h","o","n","-","d","a","t","e","u","t","i","l">>   \* dateutil -> python-dateutil

stdlib ==
  { <<"o","s">>,  \* os
    <<"s","y","s">>,  \* sys
    <<"r","e">>,  \* re
    <<"j","s","o","n">>,  \* json
    <<"t","i","m","e">>,  \* time
    <<"d","a","t","e","t","i","m","e">>,  \* datetime
    <<"m","a","t","h">>,  \* math
    <<"r","a","n","d","o","m">>,  \* random
    <<"c","o","l","l","e","c","t","i","o","n","s">>,  \* collections
    <<"i","t","e","r","t","o","o","l","s">>,  \* itertools
    <<"f","u","n","c","t","o","o","l","s">>,  \* functools
    <<"p","a","t","h","l","i","b">>,  \* pathlib
    <<"s","u","b","p","r","o","c","e","s","s">>,  \* subprocess
    <<"t","h","r","e","a","d","i","n","g">>,  \* threading
    <<"m","u","l","t","i","p","r","o","c","e","s","s","i","n","g">>,  \* multiprocessing
    <<"l","o","g","g","i","n","g">>,  \* logging
    <<"a","r","g","p","a","r","s","e">>,  \* argparse
    <<"i","o">>,  \* io
    <<"s","h","u","t","i","l">>,  \* shutil
    <<"t","e","m","p","f","i","l","e">>,  \* tempfile
    <<"g","l","o","b">>,  \* glob
    <<"p","i","c","k","l","e">>,  \* pickle
    <<"c","s","v">>,  \* csv
    <<"u","r","l","l","i","b">>,  \* urllib
    <<"h","t","t","p">>,  \* http
    <<"s","o","c","k","e","t">>,  \* socket
    <<"e","m","a","i","l">>,  \* email
    <<"h","t","m","l">>,  \* html
    <<"x","m","l">>,  \* xml
    <<"s","q","l","i","t","e","3">>,  \* sqlite3
    <<"h","a","s","h","l","i","b">>,  \* hashlib
    <<"h","m","a","c">>,  \* hmac
    <<"b","a","s","e","6","4">>,  \* base64
    <<"b","i","n","a","s","c","i","i">>,  \* binascii
    <<"s","t","r","u","c","t">>,  \* struct
    <<"a","r","r","a","y">>,  \* array
    <<"e","n","u","m">>,  \* enum
    <<"t","y","p","i","n","g">>,  \* typing
    <<"c","o","p","y">>,  \* copy
    <<"w","e","a","k","r","e","f">>,  \* weakref
    <<"c","o","n","t","e","x","t","l","i","b">>,  \* contextlib
    <<"a","b","c">>,  \* abc
    <<"a","s","y","n","c","i","o">>,  \* asyncio
    <<"c","o","n","c","u","r","r","e","n","t">>,  \* concurrent
    <<"q","u","e","u","e">>,  \* queue
    <<"s","e","c","r","e","t","s">>,  \* secrets
    <<"s","t","r","i","n","g">>,  \* string
    <<"t","e","x","t","w","r","a","p">>,  \* textwrap
    <<"u","n","i","c","o","d","e","d","a","t","a">>,  \* unicodedata
    <<"c","o","d","e","c","s">>,  \* codecs
    <<"e","n","c","o","d","i","n","g","s">>,  \* encodings
    <<"d","e","c","i","m","a","l">>,  \* decimal
    <<"f","r","a","c","t","i","o","n","s">>,  \* fractions
    <<"s","t","a","t","i","s","t","i","c","s">>,  \* statistics
    <<"h","e","a","p","q">>,  \* heapq
    <<"b","i","s","e","c","t">>,  \* bisect
    <<"p","p","r","i","n","t">>,  \* pprint
    <<"r","e","p","r","l","i","b">>,  \* reprlib
    <<"d","a","t","a","c","l","a","s","s","e","s">>,  \* dataclasses
    <<"g","r","a","p","h","l","i","b">>,  \* graphlib
    <<"w","a","r","n","i","n","g","s">>,  \* warnings
    <<"t","r","a","c","e","b","a","c","k">>,  \* traceback
    <<"i","n","s","p","e","c","t">>,  \* inspect
    <<"i","m","p","o","r","t","l","i","b">>,  \* importlib
    <<"p","k","g","u","t","i","l">>,  \* pkgutil
    <<"m","o","d","u","l","e","f","i","n","d","e","r">>,  \* modulefinder
    <<"r","u","n","p","y">>,  \* runpy
    <<"s","i","t","e">>,  \* site
    <<"b","u","i","l","t","i","n","s">> }  \* builtins

\* MappingGet without the lookup: every import name is taken verbatim.
MappingGet_verbatim(imp) == imp

\* package_mapping.get(imp, imp)
MappingGet(imp) ==
  IF imp \in DOMAIN package_mapping THEN package_mapping[imp] ELSE imp

\* The loop over the imports in the order the set yields them.
RECURSIVE MapLoop(_, _)
MapLoop(order, pip_pkgs) ==
  IF order = <<>> THEN pip_pkgs
  ELSE IF Head(order) \in stdlib
    THEN MapLoop(Tail(order), pip_pkgs)
    ELSE MapLoop(Tail(order), Append(pip_pkgs, MappingGet(Head(order))))

\* map_to_pip_packages(imports), iterating the set in the given order.
map_to_pip_packages(order) == MapLoop(order, <<>>)

\* The orders in which a Python set may yield its elements.
IterOrders(set) ==
  {o \in [1..Cardinality(set) -> set] : \A e \in set : \E i \in DOMAIN o : o[i] = e}

\* ------------------------------------------------------------------------
\* The inputs of one invocation
\* ------------------------------------------------------------------------

DotPy == <<".","p","y">>

\* The python_file arguments tried: app.py, d/app.py, app.txt and apppy.
Paths ==
  { <<"a","p","p",".","p","y">>,
    <<"d","/","a","p","p",".","p","y">>,
    <<"a","p","p",".","t","x","t">>,
    <<"a","p","p","p","y">> }

\* What the file system holds at the path named by python_file.
PathKinds == {"file", "dir", "none"}

\* The statements a source text is made of.
StatementPool ==
  { <<"i","m","p","o","r","t"," ","o","s">>,   \* import os
    <<"i","m","p","o","r","t"," ","r","e","q","u","e","s","t","s">>,   \* import requests
    <<"f","r","o","m"," ","b","s","4"," ","i","m","p","o","r","t"," ","B","e","a","u","t","i","f","u","l","S","o","u","p">>,   \* from bs4 import BeautifulSoup
    <<" "," ","f","r","o","m"," ","y","a","m","l",".","x"," ","i","m","p","o","r","t"," ","y">>,   \*   from yaml.x import y
    <<"i","m","p","o","r","t"," ","p","y","y","a","m","l">>,   \* import pyyaml
    <<"i","m","p","o","r","t"," ","P","I","L">>,   \* import PIL
    <<"x"," ","="," ","\"","\"","\"","\n","f","r","o","m"," ","h","e","r","e","\"","\"","\"">>,   \* a string of two lines between tripled quotes, the second line being: from here
    <<"s"," ","="," ","\"","i","m","p","o","r","t"," ","z","\""," "," ","#"," ","i","m","p","o","r","t"," ","f","o","o">> }   \* a string literal and a comment that both say import

\* The text of a file whose statements are ls, each ended by a newline.
RECURSIVE JoinLines(_)
JoinLines(ls) ==
  IF ls = <<>> THEN <<>> ELSE Head(ls) \o <<"\n">> \o JoinLines(Tail(ls))

Texts ==
  {JoinLines(ls) : ls \in UNION {[1..n -> StatementPool] : n \in 0..MaxStatements}}

\* The results of open()/read(): the text, or an OSError, or a
\* UnicodeDecodeError.
ReadResults == {"ok", "oserror", "decodeerror"}

\* The results of subprocess.run(['docker', ...], check=True): exit status
\* zero, CalledProcessError, FileNotFoundError or KeyboardInterrupt.
Outcomes == {"ok", "nonzero", "notfound", "interrupt"}

\* ------------------------------------------------------------------------
\* The functions main calls, as results [ret, out, raised]: the value
\* returned, the lines printed, and whether an exception left the function.
\* ------------------------------------------------------------------------

\* InputError without the check of the suffix.
InputError_nosuffix(path, kind) ==
  IF kind # "file" THEN "[ - ] Error: File not found:" ELSE ""

\* main, lines 179-185: the message of the input check that fails, or "".
InputError(path, kind) ==
  IF kind # "file" THEN "[ - ] Error: File not found:"
  ELSE IF ~EndsWith(path, DotPy) THEN "[ - ] Error: File must be a Python file (.py):"
  ELSE ""

\* parse_imports_result with a handler that catches OSError only, so that a
\* UnicodeDecodeError leaves the function.
parse_imports_result_oserror(text, read) ==
  IF read = "ok"
    THEN [ret |-> parse_imports(text, TRUE), out |-> <<>>, raised |-> FALSE]
  ELSE IF read = "oserror"
    THEN [ret |-> parse_imports(text, FALSE),
          out |-> <<"Warning: Could not parse imports from">>,
          raised |-> FALSE]
  ELSE [ret |-> {}, out |-> <<>>, raised |-> TRUE]

\* The try/except of parse_imports around the read and the scan.
parse_imports_result(text, read) ==
  IF read = "ok"
    THEN [ret |-> parse_imports(text, TRUE), out |-> <<>>, raised |-> FALSE]
    ELSE [ret |-> parse_imports(text, FALSE),
          out |-> <<"Warning: Could not parse imports from">>,
          raised |-> FALSE]

\* One line of a written file: its fixed text and the substituted values.
Line(text, args) == [text |-> text, args |-> args]

\* The lines of the Dockerfile before the dependency step; args are the
\* values the f-string substitutes into the line.
dockerfile_head(script_name) ==
  << Line("# auto-generated dockerfile for", <<script_name>>),
     Line("FROM python:3.11-slim-bookworm", <<>>),
     Line("", <<>>),
     Line("# Set working directory", <<>>),
     Line("WORKDIR /app", <<>>),
     Line("", <<>>),
     Line("# Install system dependencies", <<>>),
     Line("RUN apt-get update && apt-get install -y \\", <<>>),
     Line("    gcc \\", <<>>),
     Line("    && rm -rf /var/lib/apt/lists/*", <<>>),
     Line("", <<>>),
     Line("# Copy Python script", <<>>),
     Line("COPY /app/", <<script_name>>),
     Line("", <<>>),
     Line("# Install Python dependencies", <<>>),
     Line("", <<>>) >>

\* The lines of the Dockerfile after the dependency step.
dockerfile_tail(script_name) ==
  << Line("", <<>>),
     Line("# Run the script", <<>>),
     Line("CMD python3", <<script_name>>) >>

\* dockerfile_content without the test of pip_packages: the install step
\* is always emitted.
dockerfile_content_always(script_name, pip_pkgs) ==
  dockerfile_head(script_name)
  \o << Line("RUN pip install --no-cache-dir", pip_pkgs) >>
  \o dockerfile_tail(script_name)

\* The text create_dockerfile writes, line by line.
dockerfile_content(script_name, pip_pkgs) ==
  dockerfile_head(script_name)
  \o (IF pip_pkgs # <<>>
        THEN << Line("RUN pip install --no-cache-dir", pip_pkgs) >>
        ELSE << Line("# No external dependencies detected", <<>>) >>)
  \o dockerfile_tail(script_name)

\* requirements_content without the call of sorted().
requirements_content_unsorted(pip_pkgs) == pip_pkgs

\* The lines create_requirements_txt writes.
requirements_content(pip_pkgs) == sorted(pip_pkgs)

\* build_docker_image whose CalledProcessError handler returns True.
build_docker_image_nonzero_true(outcome) ==
  IF outcome \in {"ok", "nonzero"}
    THEN [ret |-> TRUE, raised |-> FALSE,
          out |-> <<"[ + ] Building Docker image:", "[ + ] Successfully built image:">>]
  ELSE IF outcome = "notfound"
    THEN [ret |-> FALSE, raised |-> FALSE,
          out |-> <<"[ + ] Building Docker image:", "[ - ] Docker is not installed or not in PATH">>]
  ELSE [ret |-> FALSE, raised |-> TRUE, out |-> <<"[ + ] Building Docker image:">>]

\* build_docker_image whose FileNotFoundError handler returns True.
build_docker_image_notfound_true(outcome) ==
  IF outcome = "ok"
    THEN [ret |-> TRUE, raised |-> FALSE,
          out |-> <<"[ + ] Building Docker image:", "[ + ] Successfully built image:">>]
  ELSE IF outcome = "nonzero"
    THEN [ret |-> FALSE, raised |-> FALSE,
          out |-> <<"[ + ] Building Docker image:", "[ - ] Failed to build Docker image:">>]
  ELSE IF outcome = "notfound"
    THEN [ret |-> TRUE, raised |-> FALSE,
          out |-> <<"[ + ] Building Docker image:", "[ - ] Docker is not installed or not in PATH">>]
  ELSE [ret |-> FALSE, raised |-> TRUE, out |-> <<"[ + ] Building Docker image:">>]

\* build_docker_image(work_dir, image_name)
build_docker_image(outcome) ==
  IF outcome = "ok"
    THEN [ret |-> TRUE, raised |-> FALSE,
          out |-> <<"[ + ] Building Docker image:", "[ + ] Successfully built image:">>]
  ELSE IF outcome = "nonzero"
    THEN [ret |-> FALSE, raised |-> FALSE,
          out |-> <<"[ + ] Building Docker image:", "[ - ] Failed to build Docker image:">>]
  ELSE IF outcome = "notfound"
    THEN [ret |-> FALSE, raised |-> FALSE,
          out |-> <<"[ + ] Building Docker image:", "[ - ] Docker is not installed or not in PATH">>]
  ELSE [ret |-> FALSE, raised |-> TRUE, out |-> <<"[ + ] Building Docker image:">>]

\* run_docker_container without the KeyboardInterrupt handler.
run_docker_container_nointerrupt(outcome) ==
  IF outcome = "ok"
    THEN [ret |-> TRUE, raised |-> FALSE,
          out |-> <<"[ + ] Running Docker container:", "[ + ] Container finished execution">>]
  ELSE IF outcome = "nonzero"
    THEN [ret |-> FALSE, raised |-> FALSE,
          out |-> <<"[ + ] Running Docker container:", "[ + ] Container execution failed:">>]
  ELSE [ret |-> FALSE, raised |-> TRUE, out |-> <<"[ + ] Running Docker container:">>]

\* run_docker_container(image_name, container_name)
run_docker_container(outcome) ==
  IF outcome = "ok"
    THEN [ret |-> TRUE, raised |-> FALSE,
          out |-> <<"[ + ] Running Docker container:", "[ + ] Container finished execution">>]
  ELSE IF outcome = "nonzero"
    THEN [ret |-> FALSE, raised |-> FALSE,
          out |-> <<"[ + ] Running Docker container:", "[ + ] Container execution failed:">>]
  ELSE IF outcome = "interrupt"
    THEN [ret |-> FALSE, raised |-> FALSE,
          out |-> <<"[ + ] Running Docker container:", "[ + ] Container execution interrupted">>]
  ELSE [ret |-> FALSE, raised |-> TRUE, out |-> <<"[ + ] Running Docker container:">>]

\* The exit status of the interpreter when an exception leaves main: 130
\* for KeyboardInterrupt, 1 for any other.
UncaughtExit(outcome) == IF outcome = "interrupt" THEN 130 ELSE 1

\* ------------------------------------------------------------------------
\* State
\* ------------------------------------------------------------------------

VARIABLES
  pc,            \* the statement of main that runs next, or "exited"
  python_file,   \* args.python_file
  kind,          \* what the file system holds at python_file
  no_run,        \* args.no_run
  content,       \* the text read by parse_imports
  read,          \* how the read in parse_imports ended, "none" before it
  imports,       \* the set returned by parse_imports
  pip_packages,  \* the list returned by map_to_pip_packages
  files,         \* the files written so far: name -> lines
  out,           \* the lines printed so far
  calls,         \* the steps taken so far, in order
  build,         \* how docker build ended, "none" before it
  run,           \* how docker run ended, "none" before it
  exit_code      \* the exit status of the process, -1 while it runs

vars == <<pc, python_file, kind, no_run, content, read, imports,
          pip_packages, files, out, calls, build, run, exit_code>>

Init ==
  /\ pc = "main"
  /\ python_file \in Paths
  /\ kind \in PathKinds
  /\ no_run \in BOOLEAN
  /\ content = <<>>
  /\ read = "none"
  /\ imports = {}
  /\ pip_packages = <<>>
  /\ files = <<>>
  /\ out = <<>>
  /\ calls = <<>>
  /\ build = "none"
  /\ run = "none"
  /\ exit_code = -1

\* sys.exit(code), or the end of the process after an uncaught exception.
Exit(code) ==
  /\ pc' = "exited"
  /\ exit_code' = code

\* main, lines 177-201: the two checks of the input path.
Validate ==
  /\ pc = "main"
  /\ calls' = Append(calls, "validate")
  /\ IF InputError(python_file, kind) # ""
       THEN /\ out' = Append(out, InputError(python_file, kind))
            /\ Exit(1)
       ELSE /\ out' = Append(out, "Python to Docker Containerizer")
            /\ pc' = "parse"
            /\ UNCHANGED exit_code
  /\ UNCHANGED <<python_file, kind, no_run, content, read, imports,
                 pip_packages, files, build, run>>

\* main, lines 203-204: imports = parse_imports(python_file)
ParseImports ==
  /\ pc = "parse"
  /\ \E r \in ReadResults :
       \E text \in (IF r = "ok" THEN Texts ELSE {<<>>}) :
         LET res == parse_imports_result(text, r)
         IN /\ read' = r
            /\ content' = text
            /\ calls' = Append(calls, "parse_imports")
            /\ out' = Append(out, " [ + ] Analyzing dependencies...") \o res.out
            /\ IF res.raised
                 THEN /\ Exit(UncaughtExit(r))
                      /\ UNCHANGED imports
                 ELSE /\ imports' = res.ret
                      /\ pc' = "map"
                      /\ UNCHANGED exit_code
  /\ UNCHANGED <<python_file, kind, no_run, pip_packages, files, build, run>>

\* main, lines 205-213: pip_packages = map_to_pip_packages(imports), and
\* the report of what was detected.
MapToPip ==
  /\ pc = "map"
  /\ \E order \in IterOrders(imports) :
       LET pkgs == map_to_pip_packages(order)
       IN /\ pip_packages' = pkgs
          /\ out' = IF pkgs # <<>>
                      THEN Append(out, "Detected external dependencies:")
                      ELSE Append(out, "No external dependencies detected (stdlib only)")
  /\ calls' = Append(calls, "map_to_pip_packages")
  /\ pc' = "dockerfile"
  /\ UNCHANGED <<python_file, kind, no_run, content, read, imports, files,
                 build, run, exit_code>>

\* main, line 214: create_dockerfile(python_file, pip_packages, work_dir)
CreateDockerfile ==
  /\ pc = "dockerfile"
  /\ files' = ("Dockerfile" :> dockerfile_content(basename(python_file), pip_packages)) @@ files
  /\ out' = Append(out, "Created Dockerfile at:")
  /\ calls' = Append(calls, "write Dockerfile")
  /\ pc' = "requirements"
  /\ UNCHANGED <<python_file, kind, no_run, content, read, imports,
                 pip_packages, build, run, exit_code>>

\* main, lines 215-217: create_requirements_txt(pip_packages, work_dir),
\* called only for a non-empty list.
CreateRequirements ==
  /\ pc = "requirements"
  /\ IF pip_packages # <<>>
       THEN /\ files' = ("requirements.txt" :> requirements_content(pip_packages)) @@ files
            /\ out' = Append(out, "Created requirements.txt at:")
            /\ calls' = Append(calls, "write requirements.txt")
       ELSE UNCHANGED <<files, out, calls>>
  /\ pc' = "build"
  /\ UNCHANGED <<python_file, kind, no_run, content, read, imports,
                 pip_packages, build, run, exit_code>>

\* main, lines 218-219: the build, and sys.exit(1) when it returns False.
BuildDockerImage ==
  /\ pc = "build"
  /\ \E outcome \in Outcomes :
       LET res == build_docker_image(outcome)
       IN /\ build' = outcome
          /\ out' = out \o res.out
          /\ IF res.raised THEN Exit(UncaughtExit(outcome))
             ELSE IF ~res.ret THEN Exit(1)
             ELSE pc' = "run" /\ UNCHANGED exit_code
  /\ calls' = Append(calls, "docker build")
  /\ UNCHANGED <<python_file, kind, no_run, content, read, imports,
                 pip_packages, files, run>>

\* main, lines 220-224: the run, whose result main ignores, or the skip.
RunContainer ==
  /\ pc = "run"
  /\ IF ~no_run
       THEN \E outcome \in Outcomes :
              LET res == run_docker_container(outcome)
              IN /\ run' = outcome
                 /\ out' = out \o res.out
                 /\ calls' = Append(calls, "docker run")
                 /\ IF res.raised THEN Exit(UncaughtExit(outcome))
                    ELSE pc' = "done" /\ UNCHANGED exit_code
       ELSE /\ out' = Append(out, " Skipping container run (--no-run flag set)")
            /\ pc' = "done"
            /\ UNCHANGED <<run, calls, exit_code>>
  /\ UNCHANGED <<python_file, kind, no_run, content, read, imports,
                 pip_packages, files, build>>

\* main, line 226, and the return of main: the process ends with status 0.
Done ==
  /\ pc = "done"
  /\ out' = Append(out, "Done!")
  /\ Exit(0)
  /\ UNCHANGED <<python_file, kind, no_run, content, read, imports,
                 pip_packages, files, calls, build, run>>

Next ==
  \/ Validate
  \/ ParseImports
  \/ MapToPip
  \/ CreateDockerfile
  \/ CreateRequirements
  \/ BuildDockerImage
  \/ RunContainer
  \/ Done

Spec == Init /\ [][Next]_vars

\* ------------------------------------------------------------------------
\* map_to_pip_packages on its own: the import set is drawn directly from
\* a universe that holds every key of package_mapping, instead of being
\* scanned from a text.
\* ------------------------------------------------------------------------

\* Greatest size of an import set drawn from ImportUniverse.
MaxImports == 3

ImportUniverse ==
  { <<"c","v","2">>,   \* cv2
    <<"P","I","L">>,   \* PIL
    <<"s","k","l","e","a","r","n">>,   \* sklearn
    <<"y","a","m","l">>,   \* yaml
    <<"d","o","t","e","n","v">>,   \* dotenv
    <<"b","s","4">>,   \* bs4
    <<"d","a","t","e","u","t","i","l">>,   \* dateutil
    <<"p","y","y","a","m","l">>,   \* pyyaml
    <<"P","i","l","l","o","w">>,   \* Pillow
    <<"o","s">>,   \* os
    <<"s","y","s">>,   \* sys
    <<"r","e","q","u","e","s","t","s">> }   \* requests

InitMap ==
  /\ pc = "map"
  /\ python_file \in {p \in Paths : InputError(p, "file") = ""}
  /\ kind = "file"
  /\ no_run \in BOOLEAN
  /\ content = <<>>
  /\ read = "ok"
  /\ imports \in {I \in SUBSET ImportUniverse : Cardinality(I) <= MaxImports}
  /\ pip_packages = <<>>
  /\ files = <<>>
  /\ out = <<"Python to Docker Containerizer", " [ + ] Analyzing dependencies...">>
  /\ calls = <<"validate", "parse_imports">>
  /\ build = "none"
  /\ run = "none"
  /\ exit_code = -1

NextMap == MapToPip

SpecMap == InitMap /\ [][NextMap]_vars

\* ------------------------------------------------------------------------
\* Vocabulary of the properties
\* ------------------------------------------------------------------------

Called(step) == \E i \in 1..Len(calls) : calls[i] = step
Printed(msg) == \E i \in 1..Len(out) : out[i] = msg
Written(name) == name \in DOMAIN files

\* The number of times x occurs in the list xs.
Count(x, xs) == Cardinality({i \in 1..Len(xs) : xs[i] = x})

\* The path ends in the three characters dot, p, y.
HasPySuffix(path) ==
  /\ Len(path) >= 3
  /\ path[Len(path) - 2] = "."
  /\ path[Len(path) - 1] = "p"
  /\ path[Len(path)] = "y"

\* The input path is an existing regular file whose name ends in .py.
InputValid == kind = "file" /\ HasPySuffix(python_file)

HasLine(name, text) ==
  Written(name) /\ \E i \in 1..Len(files[name]) : files[name][i].text = text

\* C1: an invocation whose input path is not an existing regular file, or
\* does not end in .py, exits with code 1, having written no file and
\* having invoked neither docker build nor docker run.
C1_InvalidInputExitsOne ==
  ~InputValid =>
    /\ pc \in {"main", "exited"}
    /\ pc = "exited" => exit_code = 1
    /\ DOMAIN files = {}
    /\ ~Called("docker build")
    /\ ~Called("docker run")
    /\ ~Called("parse_imports")

C1_Witness ==
  /\ kind = "file"
  /\ ~HasPySuffix(python_file)
  /\ pc = "exited"
  /\ exit_code = 1

\* C2: when the build fails, by a non-zero status of docker build or by a
\* missing docker executable, the process exits with code 1 and docker run
\* is never invoked; each of the two failures prints a message that the
\* other does not print.
C2_BuildFailureIsFatal ==
  build \in {"nonzero", "notfound"} =>
    /\ pc = "exited"
    /\ exit_code = 1
    /\ ~Called("docker run")
    /\ run = "none"
    /\ build = "notfound" <=> Printed("[ - ] Docker is not installed or not in PATH")
    /\ build = "nonzero" <=> Printed("[ - ] Failed to build Docker image:")

C2_Witness ==
  /\ build = "notfound"
  /\ pc = "exited"
  /\ Printed("[ - ] Docker is not installed or not in PATH")

\* C3: after a successful build, a run that fails or is interrupted is
\* reported with a message and is not fatal: main goes on to its end and
\* the exit code is 0, as it is when the run succeeds or is skipped.
C3_RunFailureIsNotFatal ==
  /\ run = "nonzero" => Printed("[ + ] Container execution failed:")
  /\ run = "interrupt" => Printed("[ + ] Container execution interrupted")
  /\ run \in {"nonzero", "interrupt"} =>
       /\ build = "ok"
       /\ pc \in {"done", "exited"}
  /\ (build = "ok" /\ (no_run \/ run \in {"ok", "nonzero", "interrupt"}) /\ pc = "exited") =>
       /\ exit_code = 0
       /\ out[Len(out)] = "Done!"

C3_Witness ==
  /\ run = "interrupt"
  /\ pc = "exited"
  /\ exit_code = 0

\* The alias table as the claim lists it.
AliasPairs ==
  { <<<<"c","v","2">>, <<"o","p","e","n","c","v","-","p","y","t","h","o","n">>>>,
    <<<<"P","I","L">>, <<"P","i","l","l","o","w">>>>,
    <<<<"s","k","l","e","a","r","n">>, <<"s","c","i","k","i","t","-","l","e","a","r","n">>>>,
    <<<<"y","a","m","l">>, <<"p","y","y","a","m","l">>>>,
    <<<<"d","o","t","e","n","v">>, <<"p","y","t","h","o","n","-","d","o","t","e","n","v">>>>,
    <<<<"b","s","4">>, <<"b","e","a","u","t","i","f","u","l","s","o","u","p","4">>>>,
    <<<<"d","a","t","e","u","t","i","l">>, <<"p","y","t","h","o","n","-","d","a","t","e","u","t","i","l">>>> }

\* The package names the reference rule gives for one import name.
RefPackages(name) ==
  IF name \in stdlib THEN {}
  ELSE IF \E pr \in AliasPairs : pr[1] = name
    THEN {pr[2] : pr \in {q \in AliasPairs : q[1] = name}}
    ELSE {name}

\* C4: map_to_pip_packages returns exactly what the reference rule gives:
\* nothing for a name of the stdlib set, the alias-table package for a key
\* of the alias table, the name itself for any other name, and no more.
C4_MapMatchesReferenceRule ==
  Called("map_to_pip_packages") =>
    /\ \A i \in 1..Len(pip_packages) :
         \E name \in imports : pip_packages[i] \in RefPackages(name)
    /\ \A name \in imports : \A pkg \in RefPackages(name) :
         Count(pkg, pip_packages) =
           Cardinality({m \in imports : pkg \in RefPackages(m)})
    /\ Len(pip_packages) = Cardinality(imports \ stdlib)

C4_Witness ==
  /\ Called("map_to_pip_packages")
  /\ imports = {<<"o","s">>, <<"c","v","2">>, <<"r","e","q","u","e","s","t","s">>}
  /\ pip_packages = <<<<"r","e","q","u","e","s","t","s">>, <<"o","p","e","n","c","v","-","p","y","t","h","o","n">>>>

\* The requirements step of main is behind us.
PastRequirements == Called("write Dockerfile") /\ pc # "requirements"

\* C5: requirements.txt is written if and only if the package list is not
\* empty, and its lines are then exactly the entries of the package list,
\* one per line, in ascending lexicographic order whatever the order in
\* which the import set was iterated.
C5_RequirementsSortedIffNonEmpty ==
  /\ Written("requirements.txt") => PastRequirements
  /\ PastRequirements =>
       /\ Written("requirements.txt") <=> pip_packages # <<>>
       /\ Written("requirements.txt") =>
            LET lines == files["requirements.txt"]
            IN /\ Len(lines) = Len(pip_packages)
               /\ \A i \in 1..Len(lines) :
                    Count(lines[i], lines) = Count(lines[i], pip_packages)
               /\ \A i \in 1..Len(lines) : \A j \in 1..Len(lines) :
                    i < j => ~StrLess(lines[j], lines[i])

C5_Witness ==
  /\ imports = {<<"o","s">>, <<"r","e","q","u","e","s","t","s">>, <<"b","s","4">>}
  /\ pip_packages = <<<<"r","e","q","u","e","s","t","s">>, <<"b","e","a","u","t","i","f","u","l","s","o","u","p","4">>>>
  /\ Written("requirements.txt")
  /\ files["requirements.txt"] = <<<<"b","e","a","u","t","i","f","u","l","s","o","u","p","4">>, <<"r","e","q","u","e","s","t","s">>>>

\* The name of the source file: the part of python_file after its last
\* slash.
IsSourceName(name) ==
  /\ \A i \in 1..Len(name) : name[i] # "/"
  /\ \/ name = python_file
     \/ /\ Len(name) < Len(python_file)
        /\ python_file[Len(python_file) - Len(name)] = "/"
        /\ SubSeq(python_file, Len(python_file) - Len(name) + 1, Len(python_file)) = name

\* C6: a written Dockerfile holds a pip install step, naming every entry
\* of the package list, if and only if the package list is not empty; for
\* an empty list it holds the comment line instead; in both cases its last
\* line is the run command naming the source file.
C6_DockerfileInstallIffNonEmpty ==
  Written("Dockerfile") =>
    LET d == files["Dockerfile"]
    IN /\ HasLine("Dockerfile", "RUN pip install --no-cache-dir") <=> pip_packages # <<>>
       /\ \A i \in 1..Len(d) :
            d[i].text = "RUN pip install --no-cache-dir" =>
              \A k \in 1..Len(pip_packages) : Count(pip_packages[k], d[i].args) >= 1
       /\ pip_packages = <<>> => HasLine("Dockerfile", "# No external dependencies detected")
       /\ d[Len(d)].text = "CMD python3"
       /\ Len(d[Len(d)].args) = 1
       /\ IsSourceName(d[Len(d)].args[1])

C6_Witness ==
  /\ Written("Dockerfile")
  /\ Len(pip_packages) = 2
  /\ HasLine("Dockerfile", "RUN pip install --no-cache-dir")
  /\ python_file = <<"d","/","a","p","p",".","p","y">>

\* C7: when the read or the decoding of the source file fails, parse_imports
\* prints a warning and returns the empty set, and main goes on as for a
\* script without dependencies: the Dockerfile is written with the comment
\* line, no requirements.txt is written, and the build is attempted.
C7_ReadFailureDegradesToNoDependencies ==
  read \in {"oserror", "decodeerror"} =>
    /\ imports = {}
    /\ Printed("Warning: Could not parse imports from")
    /\ pip_packages = <<>>
    /\ ~Written("requirements.txt")
    /\ Written("Dockerfile") =>
         /\ HasLine("Dockerfile", "# No external dependencies detected")
         /\ ~HasLine("Dockerfile", "RUN pip install --no-cache-dir")
    /\ pc \in {"build", "run", "done", "exited"} => Written("Dockerfile")
    /\ pc \in {"run", "done", "exited"} => Called("docker build")

C7_Witness ==
  /\ read = "decodeerror"
  /\ Printed("Warning: Could not parse imports from")
  /\ Written("Dockerfile")
  /\ build = "ok"
  /\ pc = "exited"

\* Where a Python tokenizer stands after each character of s: in code, in
\* a comment, in a string between double quotes (str1) or in a string
\* between tripled double quotes (str3). ModesFrom gives the modes of the
\* characters p..Len(s), m being the mode before character p.
TripleQuote == <<"\"", "\"", "\"">>

RECURSIVE ModesFrom(_, _, _)
ModesFrom(s, p, m) ==
  IF p > Len(s) THEN <<>>
  ELSE IF m = "code" /\ LiteralAt(s, p, TripleQuote)
    THEN <<"str3", "str3", "str3">> \o ModesFrom(s, p + 3, "str3")
  ELSE IF m = "str3" /\ LiteralAt(s, p, TripleQuote)
    THEN <<"str3", "str3", "str3">> \o ModesFrom(s, p + 3, "code")
  ELSE IF m = "code" /\ s[p] = "\""
    THEN <<"str1">> \o ModesFrom(s, p + 1, "str1")
  ELSE IF m = "str1" /\ s[p] \in {"\"", "\n"}
    THEN <<"str1">> \o ModesFrom(s, p + 1, "code")
  ELSE IF m = "code" /\ s[p] = "#"
    THEN <<"comment">> \o ModesFrom(s, p + 1, "comment")
  ELSE IF m = "comment" /\ s[p] = "\n"
    THEN <<"comment">> \o ModesFrom(s, p + 1, "code")
  ELSE <<m>> \o ModesFrom(s, p + 1, m)

\* Position after the blanks and tabs that start at p.
RECURSIVE SkipBlank(_, _)
SkipBlank(s, p) ==
  IF p <= Len(s) /\ s[p] \in {" ", "\t"} THEN SkipBlank(s, p + 1) ELSE p

\* The names n such that some line of s, outside every string and comment,
\* reads after its leading blanks: import or from, blanks, then n as the
\* first dotted segment.
ImportStatementNames(s) ==
  LET modes == ModesFrom(s, 1, "code")
      KwEnd(q) == IF LiteralAt(s, q, KwImport) THEN q + Len(KwImport)
                  ELSE IF LiteralAt(s, q, KwFrom) THEN q + Len(KwFrom)
                  ELSE 0
      starts == {p \in 1..Len(s) :
                   /\ p = 1 \/ s[p - 1] = "\n"
                   /\ KwEnd(SkipBlank(s, p)) # 0
                   /\ modes[SkipBlank(s, p)] = "code"
                   /\ SkipBlank(s, KwEnd(SkipBlank(s, p))) > KwEnd(SkipBlank(s, p))
                   /\ SkipWord(s, SkipBlank(s, KwEnd(SkipBlank(s, p))))
                        > SkipBlank(s, KwEnd(SkipBlank(s, p)))}
  IN {SubSeq(s, SkipBlank(s, KwEnd(SkipBlank(s, p))),
             SkipWord(s, SkipBlank(s, KwEnd(SkipBlank(s, p)))) - 1) : p \in starts}

\* C8: every name captured by parse_imports is the first dotted segment
\* after import or from at the start of a whitespace-trimmed line; a name
\* that occurs only inside expressions, comments or strings is never
\* captured.
C8_CapturesOnlyImportStatements ==
  (Called("parse_imports") /\ read = "ok") =>
    imports \subseteq ImportStatementNames(content)

\* C9: the package list returned by map_to_pip_packages holds no package
\* name more than once, also when the imports hold both a key of the alias
\* table and the package name that key maps to.
C9_PackageListHasNoDuplicates ==
  Called("map_to_pip_packages") =>
    \A i \in 1..Len(pip_packages) : Count(pip_packages[i], pip_packages) = 1

\* The steps of main in the order of the code.
StepOrder ==
  << "validate", "parse_imports", "map_to_pip_packages", "write Dockerfile",
     "write requirements.txt", "docker build", "docker run" >>

Rank(step) == CHOOSE i \in 1..Len(StepOrder) : StepOrder[i] = step

C10_StepsInOrder ==
  /\ \A i \in 1..Len(calls) : \E k \in 1..Len(StepOrder) : StepOrder[k] = calls[i]
  /\ \A i \in 1..Len(calls) : \A j \in 1..Len(calls) :
       i < j => Rank(calls[i]) < Rank(calls[j])
  /\ Called("docker build") => Written("Dockerfile") /\ Called("write Dockerfile")
  /\ Called("write requirements.txt") <=> Written("requirements.txt")
  /\ Called("docker run") => build = "ok" /\ ~no_run
  /\ run # "none" <=> Called("docker run")

C10_NoRollback ==
  \A name \in DOMAIN files : name \in DOMAIN files' /\ files'[name] = files[name]

\* C10: the steps of main happen at most once each and in the order
\* validation, extraction, resolution, Dockerfile, requirements.txt, build,
\* run; docker build is never invoked before the Dockerfile is written,
\* docker run only after a successful build and without --no-run; and a
\* file once written is never removed or changed, whatever fails later.
C10_PipelineOrderAndNoRollback ==
  /\ []C10_StepsInOrder
  /\ [][C10_NoRollback]_vars

C10_Witness ==
  /\ pc = "exited"
  /\ build = "nonzero"
  /\ Written("Dockerfile")
  /\ Written("requirements.txt")
  /\ calls = << "validate", "parse_imports", "map_to_pip_packages",
                "write Dockerfile", "write requirements.txt", "docker build" >>

====
